---------------------------- MODULE Spec2Model ----------------------------
(***************************************************************************)
(* A model of app.py, the Flask backend of the AI News Hub: the module    *)
(* level start-up code, the four API handlers (trending, search,          *)
(* summarize, extract-url) and the health check, run by a thread-per-     *)
(* request server, together with the HTML content extraction of           *)
(* extract_from_url.                                                      *)
(***************************************************************************)
EXTENDS Integers, Sequences, FiniteSets, TLC

(***************************************************************************)
(* Python strings.  A string is kept run-length encoded: a sequence of    *)
(* runs [c |-> character, n |-> repetitions], n >= 1, adjacent runs of    *)
(* different characters.  The encoding is one-to-one with strings, so     *)
(* equality of encodings is equality of strings, and a text of several    *)
(* thousand characters stays a value of a few runs.                       *)
(***************************************************************************)
Min(a, b) == IF a <= b THEN a ELSE b

\* The whitespace characters str.strip() and str.split() act on.
Whitespace == {" ", "\n", "\t"}

IsSpace(c) == c \in Whitespace

EmptyStr == << >>

\* c repeated n times.
Rep(c, n) == IF n <= 0 THEN EmptyStr ELSE << [c |-> c, n |-> n] >>

\* String concatenation (a + b): the runs of a, then those of b, the two runs
\* that meet merged when they are of the same character.
Concat(a, b) ==
    IF a = EmptyStr THEN b
    ELSE IF b = EmptyStr THEN a
    ELSE IF a[Len(a)].c = b[1].c
         THEN SubSeq(a, 1, Len(a) - 1)
              \o << [c |-> b[1].c, n |-> a[Len(a)].n + b[1].n] >>
              \o Tail(b)
         ELSE a \o b

\* len(s)
RECURSIVE StrLen(_)
StrLen(s) == IF s = EmptyStr THEN 0 ELSE s[1].n + StrLen(Tail(s))

\* s[:k]
RECURSIVE Prefix(_, _)
Prefix(s, k) ==
    IF s = EmptyStr \/ k <= 0 THEN EmptyStr
    ELSE IF s[1].n >= k THEN Rep(s[1].c, k)
    ELSE << s[1] >> \o Prefix(Tail(s), k - s[1].n)

\* s.lstrip()
RECURSIVE LStrip(_)
LStrip(s) ==
    IF s # EmptyStr /\ IsSpace(s[1].c) THEN LStrip(Tail(s)) ELSE s

\* s.rstrip()
RECURSIVE RStrip(_)
RStrip(s) ==
    IF s # EmptyStr /\ IsSpace(s[Len(s)].c)
    THEN RStrip(SubSeq(s, 1, Len(s) - 1))
    ELSE s

\* s.strip()
Strip(s) == RStrip(LStrip(s))

\* The longest prefix of s free of whitespace, as a number of runs.
RECURSIVE WordRuns(_)
WordRuns(s) ==
    IF s = EmptyStr \/ IsSpace(s[1].c) THEN 0 ELSE 1 + WordRuns(Tail(s))

\* s.split(): the maximal whitespace-free pieces of s, in order.
RECURSIVE Split(_)
Split(s) ==
    LET t == LStrip(s)
        k == WordRuns(t)
    IN  IF t = EmptyStr THEN << >>
        ELSE << SubSeq(t, 1, k) >> \o Split(SubSeq(t, k + 1, Len(t)))

\* sep.join(parts)
RECURSIVE Join(_, _)
Join(sep, parts) ==
    IF parts = << >> THEN EmptyStr
    ELSE IF Len(parts) = 1 THEN parts[1]
    ELSE Concat(Concat(parts[1], sep), Join(sep, Tail(parts)))

Space == Rep(" ", 1)

\* ' '.join(s.split())
CollapseWhitespace(s) == Join(Space, Split(s))

(***************************************************************************)
(* The parsed document (BeautifulSoup).  A node is an element             *)
(* [tag, role, class, text, kids] or a text node (tag "#text", its string *)
(* in text).  A document is the sequence of its top-level nodes.          *)
(***************************************************************************)
TextNode(s) ==
    [tag |-> "#text", role |-> "", class |-> {}, text |-> s, kids |-> << >>]

Element(tag, role, class, kids) ==
    [tag |-> tag, role |-> role, class |-> class, text |-> EmptyStr,
     kids |-> kids]

IsText(node) == node.tag = "#text"

\* The tags extract_from_url removes before it looks for content.
UnwantedTags == {"script", "style", "nav", "footer", "header", "aside"}

\* for element in soup([...]): element.decompose()
\* The nodes left once every element of an unwanted tag is gone, with all
\* it holds.
RECURSIVE Decompose(_)
Decompose(nodes) ==
    IF nodes = << >> THEN << >>
    ELSE LET node == nodes[1]
             rest == Decompose(Tail(nodes))
         IN  IF IsText(node) THEN << node >> \o rest
             ELSE IF node.tag \in UnwantedTags THEN rest
             ELSE << [node EXCEPT !.kids = Decompose(node.kids)] >> \o rest

\* The elements of the nodes and below them, in document order
\* (tag.descendants, the elements only).
RECURSIVE Elements(_)
Elements(nodes) ==
    IF nodes = << >> THEN << >>
    ELSE LET node == nodes[1]
         IN  IF IsText(node) THEN Elements(Tail(nodes))
             ELSE << node >> \o Elements(node.kids) \o Elements(Tail(nodes))

\* The strings of the text nodes at and below the nodes, in document order
\* (tag.strings).
RECURSIVE Strings(_)
Strings(nodes) ==
    IF nodes = << >> THEN << >>
    ELSE LET node == nodes[1]
         IN  IF IsText(node) THEN << node.text >> \o Strings(Tail(nodes))
             ELSE Strings(node.kids) \o Strings(Tail(nodes))

\* tag.get_text(): the strings below the element, concatenated.
get_text(element) == Join(EmptyStr, Strings(element.kids))

RECURSIVE StripEach(_)
StripEach(strs) ==
    IF strs = << >> THEN << >>
    ELSE LET s == Strip(strs[1])
         IN  IF s = EmptyStr THEN StripEach(Tail(strs))
             ELSE << s >> \o StripEach(Tail(strs))

\* get_text() in place of get_text(separator=' ', strip=True).
get_text_plain(element) == get_text(element)

\* tag.get_text(separator=' ', strip=True): every string stripped, the empty
\* ones dropped, the rest joined by the separator.
get_text_stripped(element) == Join(Space, StripEach(Strings(element.kids)))

\* The content containers extract_from_url tries, in this order.
Selectors ==
    << "article", "main", "[role=\"main\"]", ".article-content",
       ".post-content", ".entry-content" >>

\* Whether the element matches the CSS selector: a tag name, an attribute
\* test [role="main"], or a class test .name.
Matches(element, selector) ==
    CASE selector = "article" -> element.tag = "article"
      [] selector = "main" -> element.tag = "main"
      [] selector = "[role=\"main\"]" -> element.role = "main"
      [] selector = ".article-content" -> "article-content" \in element.class
      [] selector = ".post-content" -> "post-content" \in element.class
      [] selector = ".entry-content" -> "entry-content" \in element.class
      [] OTHER -> FALSE

None == [t |-> "None"]

\* soup.select_one(selector): the first element in document order that
\* matches, or None.
select_one(soup, selector) ==
    LET hits == SelectSeq(Elements(soup), LAMBDA e : Matches(e, selector))
    IN  IF hits = << >> THEN None ELSE hits[1]

\* soup.find_all(tag)
find_all(soup, tag) == SelectSeq(Elements(soup), LAMBDA e : e.tag = tag)

\* soup.find(tag)
find(soup, tag) ==
    LET hits == find_all(soup, tag)
    IN  IF hits = << >> THEN None ELSE hits[1]

\* The loop going on to the next selector when the match has no text.
RECURSIVE TryContainersSkipEmpty(_, _)
TryContainersSkipEmpty(soup, i) ==
    IF i > Len(Selectors) THEN EmptyStr
    ELSE LET content == select_one(soup, Selectors[i])
         IN  IF content # None /\ get_text_stripped(content) # EmptyStr
             THEN get_text_stripped(content)
             ELSE TryContainersSkipEmpty(soup, i + 1)

\* The loop over the selectors, from the i-th on: the text of the first
\* selector that matches an element, whatever that text is; the empty string
\* when none matches.
RECURSIVE TryContainers(_, _)
TryContainers(soup, i) ==
    IF i > Len(Selectors) THEN EmptyStr
    ELSE LET content == select_one(soup, Selectors[i])
         IN  IF content # None THEN get_text_stripped(content)
             ELSE TryContainers(soup, i + 1)

RECURSIVE ParagraphTexts(_)
ParagraphTexts(paragraphs) ==
    IF paragraphs = << >> THEN << >>
    ELSE LET s == Strip(get_text(paragraphs[1]))
         IN  IF s # EmptyStr THEN << s >> \o ParagraphTexts(Tail(paragraphs))
             ELSE ParagraphTexts(Tail(paragraphs))

\* ''.join(...) in place of ' '.join(...).
ParagraphFallbackNoSeparator(soup) ==
    Join(EmptyStr, ParagraphTexts(find_all(soup, "p")))

\* ' '.join([p.get_text().strip() for p in paragraphs if p.get_text().strip()])
ParagraphFallback(soup) == Join(Space, ParagraphTexts(find_all(soup, "p")))

\* article_content once the whitespace is cleaned up, for the document as
\* parsed (html): unwanted elements removed, the containers tried, the
\* paragraphs as the fallback of an empty result, whitespace collapsed.
ArticleContent(html) ==
    LET soup == Decompose(html)
        found == TryContainers(soup, 1)
        article_content ==
            IF found = EmptyStr THEN ParagraphFallback(soup) ELSE found
    IN  CollapseWhitespace(article_content)

\* A string literal, given as its characters.
RECURSIVE Lit(_)
Lit(chars) ==
    IF chars = << >> THEN EmptyStr
    ELSE Concat(Rep(chars[1], 1), Lit(Tail(chars)))

NoTitleFound ==
    Lit(<< "N", "o", " ", "t", "i", "t", "l", "e", " ",
           "f", "o", "u", "n", "d" >>)

\* title_text
TitleText(html) ==
    LET title == find(Decompose(html), "title")
    IN  IF title # None THEN Strip(get_text(title)) ELSE NoTitleFound

\* The character budget of the content field.
ContentBudget == 5000

(***************************************************************************)
(* Python and JSON values, tagged by type: None, str, int, bool, list, a   *)
(* text (a string kept in runs), the AI client handle.  A JSON object is  *)
(* a function from its keys.                                              *)
(***************************************************************************)
Str(s) == [t |-> "str", s |-> s]
Num(i) == [t |-> "int", i |-> i]
Bool(b) == [t |-> "bool", b |-> b]
List(items) == [t |-> "list", items |-> items]
Text(runs) == [t |-> "text", runs |-> runs]

\* genai.GenerativeModel(model_name): the handle, its name left out.
GenerativeModel == [t |-> "GenerativeModel"]

EmptyObject == << >>

\* bool(v) of a tagged value.
Truthy(v) ==
    CASE v.t = "None" -> FALSE
      [] v.t = "str" -> v.s # ""
      [] v.t = "int" -> v.i # 0
      [] v.t = "bool" -> v.b
      [] v.t = "list" -> v.items # << >>
      [] v.t = "text" -> v.runs # EmptyStr
      [] OTHER -> TRUE

\* dict.get(key, default)
Get(object, key, default) ==
    IF key \in DOMAIN object THEN object[key] ELSE default

HasField(object, key) == key \in DOMAIN object

(***************************************************************************)
(* Bounds of the model.                                                   *)
(***************************************************************************)
\* Requests handled at the same time (app.run(threaded=True)).
NumThreads == 2

\* Models genai.list_models() may add to the names to try.
MaxAvailable == 1

\* Top-level blocks of a fetched document.
MaxBlocks == 2

Threads == 1..NumThreads

\* The names of model_names_to_try before the listed ones are added.
NumPreferred == 8

(***************************************************************************)
(* The state: the module's globals, the position of the start-up code,    *)
(* and one record per server thread: the handler it runs, where it is,    *)
(* its local variables and the response it returned.                      *)
(***************************************************************************)
VARIABLES NEWS_API_KEY, GEMINI_API_KEY, gemini_model, startup, threads

vars == << NEWS_API_KEY, GEMINI_API_KEY, gemini_model, startup, threads >>

\* What os.getenv gives for NEWS_API_KEY: nothing, an empty value, a key.
NewsKeyValues == {None, Str(""), Str("key")}

\* What os.getenv gives for GEMINI_API_KEY: nothing, a key.
GeminiKeyValues == {None, Str("key")}

Idle ==
    [pc |-> "idle", route |-> "", request |-> None, response |-> None,
     article_content |-> None, result |-> None,
     ai |-> None, returned |-> None,
     news_calls |-> 0, fetch_calls |-> 0, ai_calls |-> 0]

Serving == [pc |-> "serving", model_names_to_try |-> 0, model_index |-> 0,
            model_initialized |-> FALSE]

Init ==
    /\ NEWS_API_KEY = None
    /\ GEMINI_API_KEY = None
    /\ gemini_model = None
    /\ startup = [pc |-> "getenv", model_names_to_try |-> 0,
                  model_index |-> 0, model_initialized |-> FALSE]
    /\ threads = [t \in Threads |-> Idle]

(***************************************************************************)
(* Start-up: the module level code, run once before any request is        *)
(* served.  The loop's variables are not read once it is over and are     *)
(* cleared when the server starts to serve.                               *)
(***************************************************************************)
\* NEWS_API_KEY = os.getenv(...); GEMINI_API_KEY = os.getenv(...);
\* gemini_model = None
LoadEnv ==
    /\ startup.pc = "getenv"
    /\ NEWS_API_KEY' \in NewsKeyValues
    /\ GEMINI_API_KEY' \in GeminiKeyValues
    /\ gemini_model' = None
    /\ startup' = [startup EXCEPT !.pc = "configure"]
    /\ UNCHANGED threads

\* if GEMINI_API_KEY: genai.configure(...), which may raise into the outer
\* handler; then the models are listed (a failure there is caught and leaves
\* the list as far as it got) and added to the names to try.
ConfigureGemini ==
    /\ startup.pc = "configure"
    /\ IF ~Truthy(GEMINI_API_KEY)
       THEN startup' = Serving
       ELSE \/ startup' = Serving
            \/ \E available_models \in 0..MaxAvailable :
                   startup' = [pc |-> "try_model",
                               model_names_to_try |->
                                   NumPreferred + available_models,
                               model_index |-> 1,
                               model_initialized |-> FALSE]
    /\ UNCHANGED << NEWS_API_KEY, GEMINI_API_KEY, gemini_model, threads >>

\* One turn of "for model_name in model_names_to_try": the constructor may
\* raise, the test request may raise or come back without text (the loop
\* goes on), or come back with text (the loop ends).
TryModelOutcomes == {"constructor raises", "generate raises", "no text", "ok"}

TryModel ==
    /\ startup.pc = "try_model"
    /\ startup.model_index <= startup.model_names_to_try
    /\ \E outcome \in TryModelOutcomes :
           /\ gemini_model' =
                  IF outcome = "constructor raises" THEN gemini_model
                  ELSE GenerativeModel
           /\ startup' =
                  IF outcome = "ok"
                  THEN [startup EXCEPT !.model_initialized = TRUE,
                                       !.pc = "after_loop"]
                  ELSE [startup EXCEPT !.model_index = @ + 1]
    /\ UNCHANGED << NEWS_API_KEY, GEMINI_API_KEY, threads >>

\* The loop has run out of names.
LoopExhausted ==
    /\ startup.pc = "try_model"
    /\ startup.model_index > startup.model_names_to_try
    /\ startup' = [startup EXCEPT !.pc = "after_loop"]
    /\ UNCHANGED << NEWS_API_KEY, GEMINI_API_KEY, gemini_model, threads >>

\* if not model_initialized: gemini_model = None
AfterLoop ==
    /\ startup.pc = "after_loop"
    /\ gemini_model' =
           IF ~startup.model_initialized THEN None ELSE gemini_model
    /\ startup' = Serving
    /\ UNCHANGED << NEWS_API_KEY, GEMINI_API_KEY, threads >>

StartupDone == startup.pc = "serving"

(***************************************************************************)
(* Responses.                                                             *)
(***************************************************************************)
\* return jsonify(body), status
Json(body, status) ==
    [status |-> status, mimetype |-> "application/json", body |-> body]

\* return '', 204
NoContent == [status |-> 204, mimetype |-> "text/html", body |-> EmptyObject]

\* get_demo_articles(): six articles, here by source and url (publishedAt
\* is drawn from the clock and a random offset on every call).
get_demo_articles ==
    List(<< [source |-> "Tech Daily", url |-> "https://example.com/ai-breakthrough"],
            [source |-> "Global News Network", url |-> "https://example.com/energy-solutions"],
            [source |-> "Innovation Weekly", url |-> "https://example.com/quantum-computing"],
            [source |-> "Health Monitor", url |-> "https://example.com/medical-ai"],
            [source |-> "Space Gazette", url |-> "https://example.com/mars-colony"],
            [source |-> "Business Insider", url |-> "https://example.com/digital-currency"] >>)

\* str(e) of an exception caught at the handler's boundary.
Exception(e) == Json("error" :> Str(e), 500)

(***************************************************************************)
(* The upstream news API, as requests.get and response.json() show it:    *)
(* the call raises (a timeout, no connection), or answers with a status   *)
(* and a body that is a JSON object, other JSON (an array), or no JSON.   *)
(***************************************************************************)
UpstreamArticles == List(<< [source |-> "Upstream", url |-> "https://news.example/1"] >>)

Answer(status_code, kind, data) ==
    [raised |-> FALSE, status_code |-> status_code,
     body |-> [kind |-> kind, data |-> data]]

ErrorObject == ("status" :> Str("error")) @@ ("message" :> Str("upstream message"))

NewsResponses ==
    { [raised |-> TRUE, status_code |-> 0,
       body |-> [kind |-> "invalid", data |-> EmptyObject]],
      Answer(200, "object",
             ("status" :> Str("ok")) @@ ("articles" :> UpstreamArticles)),
      Answer(200, "array", EmptyObject),
      Answer(401, "object", ErrorObject),
      Answer(429, "object", ErrorObject),
      Answer(429, "invalid", EmptyObject),
      Answer(500, "object", ErrorObject),
      Answer(500, "object", "status" :> Str("error")),
      Answer(500, "invalid", EmptyObject) }

\* Whether the upstream answered, and data = response.json() is an object.
IsObject(response) == ~response.raised /\ response.body.kind = "object"

(***************************************************************************)
(* GET /api/trending                                                      *)
(***************************************************************************)
TrendingDemo ==
    Json(("status" :> Str("ok"))
         @@ ("totalResults" :> Num(Len(get_demo_articles.items)))
         @@ ("articles" :> get_demo_articles)
         @@ ("note" :> Str("DEMO DATA - Add NEWS_API_KEY to .env for real news")),
         200)

RateLimitDemo ==
    Json(("status" :> Str("ok"))
         @@ ("articles" :> get_demo_articles)
         @@ ("note" :> Str("Rate limit exceeded - showing demo data")),
         200)

\* What get_trending returns once requests.get is over: the try block from
\* response.json() on, and its except clause.
TrendingReply(response) ==
    IF response.raised THEN Exception("RequestException")
    ELSE IF response.body.kind = "invalid" THEN Exception("JSONDecodeError")
    ELSE IF response.body.kind # "object" THEN Exception("AttributeError")
    ELSE LET data == response.body.data
         IN  IF response.status_code = 200 THEN Json(data, 200)
             ELSE IF response.status_code = 429 THEN RateLimitDemo
             ELSE Json("error" :> Get(data, "message",
                                      Str("Failed to fetch news")),
                       response.status_code)

(***************************************************************************)
(* POST /api/search                                                       *)
(***************************************************************************)
SearchDemo ==
    Json(("status" :> Str("ok"))
         @@ ("totalResults" :> Num(Len(get_demo_articles.items)))
         @@ ("articles" :> get_demo_articles)
         @@ ("note" :> Str("DEMO DATA - Add NEWS_API_KEY to .env for real search")),
         200)

\* The upstream's failure returned without its status code.
SearchReplyNoStatus(response) ==
    IF ~IsObject(response) THEN Exception("Exception")
    ELSE Json(IF response.status_code = 200 THEN response.body.data
              ELSE "error" :> Get(response.body.data, "message",
                                  Str("Search failed")),
              200)

\* What search_news returns once requests.get is over.
SearchReply(response) ==
    IF response.raised THEN Exception("RequestException")
    ELSE IF response.body.kind = "invalid" THEN Exception("JSONDecodeError")
    ELSE IF response.body.kind # "object" THEN Exception("AttributeError")
    ELSE LET data == response.body.data
         IN  IF response.status_code = 200 THEN Json(data, 200)
             ELSE Json("error" :> Get(data, "message", Str("Search failed")),
                       response.status_code)

(***************************************************************************)
(* The AI model, as generate_content shows it: it returns a response with *)
(* text, one without (blocked), or raises.                                *)
(***************************************************************************)
AIOutcomes == {"text", "no text", "raise"}

AISummary == Str("An AI summary.")

(***************************************************************************)
(* POST /api/summarize                                                    *)
(***************************************************************************)
SummarizeDemo ==
    Json(("summary" :> Str("This is a demo summary. ..."))
         @@ ("ai_model" :> Str("Demo Mode"))
         @@ ("note" :> Str("Gemini API key not configured")),
         200)

SummarizeFailed(e) ==
    Json(("error" :> Str("AI summarization failed: " \o e))
         @@ ("details" :> Str("Check server logs for more information")),
         500)

\* The demo fallback tested before the text.
SummarizeEarlyDemoFirst(data, model) ==
    IF DOMAIN data = {} THEN Json("error" :> Str("No data received"), 400)
    ELSE IF ~Truthy(model) THEN SummarizeDemo
    ELSE IF ~Truthy(Get(data, "text", Str("")))
         THEN Json("error" :> Str("Text is required"), 400)
    ELSE None

\* What summarize_article returns before it calls the model, None when it
\* goes on to call it: the checks of the request, in the code's order.
SummarizeEarly(data, model) ==
    IF DOMAIN data = {} THEN Json("error" :> Str("No data received"), 400)
    ELSE LET text == Get(data, "text", Str(""))
         IN  IF text.t # "str" THEN SummarizeFailed("TypeError")
             ELSE IF ~Truthy(text)
                  THEN Json("error" :> Str("Text is required"), 400)
             ELSE IF ~Truthy(model) THEN SummarizeDemo
             ELSE None

\* What summarize_article returns once generate_content is over.
SummarizeReply(text, outcome) ==
    IF outcome = "raise" THEN SummarizeFailed("Exception")
    ELSE IF outcome = "no text"
    THEN Json(("error" :> Str("Content generation was blocked by safety filters"))
              @@ ("summary" :> Str("Unable to generate summary for this content.")),
              200)
    ELSE Json(("summary" :> AISummary)
              @@ ("original_length" :> Num(Len(text.s)))
              @@ ("summary_length" :> Num(Len(AISummary.s)))
              @@ ("ai_model" :> Str("Gemini Pro")),
              200)

(***************************************************************************)
(* POST /api/extract-url                                                  *)
(***************************************************************************)
\* The page fetch, as requests.get and raise_for_status show it: a
\* RequestException (no connection, a timeout, an HTTP error status) and no
\* page, or the page, here as the document BeautifulSoup parses it into.
FetchFailures ==
    { [raised |-> "ConnectionError", rejected |-> FALSE, html |-> << >>],
      [raised |-> "HTTPError", rejected |-> FALSE, html |-> << >>] }

\* A fetched page that BeautifulSoup(response.content, 'html.parser') does
\* not parse: html.parser gives up on some markup (a marked section with an
\* unknown keyword, such as <![x[) and the constructor raises
\* ParserRejectedMarkup.
ParserRejected == [raised |-> "", rejected |-> TRUE, html |-> << >>]

Fetched(pages) ==
    FetchFailures \cup { ParserRejected }
    \cup [raised : {""}, rejected : {FALSE}, html : pages]

\* What extract_from_url returns before it fetches, None when it goes on.
ExtractEarly(data) ==
    IF ~Truthy(Get(data, "url", Str("")))
    THEN Json("error" :> Str("URL is required"), 400)
    ELSE None

\* content_length taken of the content as cut.
ExtractResultLengthOfCut(url, title_text, article_content) ==
    ("url" :> url)
    @@ ("title" :> Text(title_text))
    @@ ("content" :> Text(Prefix(article_content, ContentBudget)))
    @@ ("content_length" :>
            Num(StrLen(Prefix(article_content, ContentBudget))))

\* result, as first built: url, title, the content cut to its budget, and
\* the length of the content.
ExtractResult(url, title_text, article_content) ==
    ("url" :> url)
    @@ ("title" :> Text(title_text))
    @@ ("content" :> Text(Prefix(article_content, ContentBudget)))
    @@ ("content_length" :> Num(StrLen(article_content)))

\* if summarize and article_content and gemini_model
WantsAISummary(summarize, article_content, model) ==
    Truthy(summarize) /\ article_content # EmptyStr /\ Truthy(model)

\* The elif branch left out.
ResultWithoutPlaceholder(result, summarize, model) == result

\* result as returned when the model is not called: the elif branch adds a
\* placeholder summary.
ResultWithoutAI(result, summarize, model) ==
    IF Truthy(summarize) /\ ~Truthy(model)
    THEN result @@ ("summary" :> Str("AI summarization unavailable. Please configure Gemini API key in .env file."))
    ELSE result

\* result once generate_content is over: the summary, or the placeholder of
\* the inner except clause.
ResultWithAI(result, outcome) ==
    CASE outcome = "text" ->
             result @@ ("summary" :> AISummary) @@ ("ai_model" :> Str("Gemini 1.5"))
      [] outcome = "no text" ->
             result @@ ("summary" :> Str("")) @@ ("ai_model" :> Str("Gemini 1.5"))
      [] OTHER ->
             result @@ ("summary" :> Str("Summary generation unavailable. Please configure Gemini API key."))

(***************************************************************************)
(* GET /api/health                                                        *)
(***************************************************************************)
HealthStatus ==
    Json(("status" :> Str("healthy"))
         @@ ("news_api_configured" :> Bool(Truthy(NEWS_API_KEY)))
         @@ ("gemini_ai_configured" :> Bool(Truthy(gemini_model))),
         200)

(***************************************************************************)
(* The requests the model sends.                                          *)
(***************************************************************************)
Options == [method |-> "OPTIONS", args |-> EmptyObject, json |-> EmptyObject]

TrendingRequests ==
    { Options,
      [method |-> "GET", args |-> EmptyObject, json |-> EmptyObject],
      [method |-> "GET", args |-> ("category" :> Str("sports")),
       json |-> EmptyObject] }

Post(json) == [method |-> "POST", args |-> EmptyObject, json |-> json]

SearchRequests ==
    { Options, Post(EmptyObject), Post("query" :> Str("")), Post("query" :> Str("ai")) }

SummarizeRequests ==
    { Options, Post(EmptyObject), Post("title" :> Str("headline")),
      Post("text" :> Str("")), Post("text" :> None),
      Post("text" :> Str("story")) }

ExtractRequests ==
    { Options, Post(EmptyObject), Post("url" :> Str("")),
      Post("url" :> Str("https://site.example/a")),
      Post(("url" :> Str("https://site.example/a")) @@ ("summarize" :> Bool(FALSE))) }

(***************************************************************************)
(* The documents the model fetches: up to MaxBlocks top-level blocks, the *)
(* i-th block's text written with the i-th letter, so that a character of *)
(* the content tells the block it came from.                              *)
(***************************************************************************)
Letters == << "a", "b", "c", "d" >>

Tag(tag, kids) == Element(tag, "", {}, kids)

\* One element for each selector, with the kids given.
Containers(kids) ==
    { Tag("article", kids), Tag("main", kids),
      Element("div", "main", {}, kids),
      Element("div", "", {"article-content"}, kids),
      Element("div", "", {"post-content"}, kids),
      Element("section", "", {"post-content", "entry-content"}, kids),
      Element("div", "", {"entry-content"}, kids) }

Blocks(ch) ==
    LET word == TextNode(Rep(ch, 1))
        blank == TextNode(Rep("\n", 1) \o Rep(" ", 2))
        spaced == TextNode(Rep(" ", 1) \o Rep(ch, 1) \o Rep("\n", 1)
                           \o Rep(" ", 1) \o Rep(ch, 2) \o Rep("\t", 1))
        bold == Tag("b", << word >>)
    IN  Containers(<< >>) \cup Containers(<< word >>)
        \cup { Tag("article", << blank >>),
               Tag("article", << Tag("header", << word >>) >>),
               Tag("article", << word, bold >>),
               Tag("article", << Tag("p", << word >>), blank >>),
               Tag("article", << TextNode(Rep(ch, ContentBudget + 1)) >>),
               Tag("aside", << Tag("article", << word >>) >>),
               Tag("nav", << Tag("p", << word >>) >>),
               Tag("p", << >>),
               Tag("p", << word >>),
               Tag("p", << spaced >>),
               Tag("p", << word, bold >>),
               Tag("p", << blank >>),
               Tag("p", << TextNode(Rep(ch, ContentBudget - 1)) >>),
               Tag("p", << TextNode(Rep(ch, ContentBudget)) >>),
               Tag("p", << TextNode(Rep(ch, ContentBudget + 1)) >>),
               Tag("div", << Tag("p", << word >>) >>),
               Tag("div", << word >>),
               Tag("title", << spaced >>) }

RECURSIVE DocsOfLen(_)
DocsOfLen(n) ==
    IF n = 0 THEN { << >> }
    ELSE { Append(doc, block) :
             doc \in DocsOfLen(n - 1), block \in Blocks(Letters[n]) }

Docs == UNION { DocsOfLen(n) : n \in 0..MaxBlocks }

\* The pages of the server model: one without content, and one with a
\* title, a container and a paragraph.
SamplePages ==
    { << >>,
      << Tag("title", << TextNode(Rep("t", 1)) >>),
         Tag("article", << TextNode(Rep("a", 1)) >>),
         Tag("p", << TextNode(Rep("b", 1)) >>) >> }

(***************************************************************************)
(* The handlers.  A handler runs on one thread, from the request to its   *)
(* first upstream call or its return in one step, and from the end of an  *)
(* upstream call to the next call or the return in one step: between two  *)
(* upstream calls it touches nothing another thread can see.              *)
(***************************************************************************)
\* A handler that declares gemini_model global and drops the handle.
HandlerResetsModel ==
    /\ gemini_model' = None
    /\ UNCHANGED << NEWS_API_KEY, GEMINI_API_KEY >>

\* No handler declares a global: the module's globals are only read.
HandlerGlobals == UNCHANGED << NEWS_API_KEY, GEMINI_API_KEY, gemini_model >>

Begin(route, request) == [Idle EXCEPT !.route = route, !.request = request]

Return(thread, returned) ==
    [thread EXCEPT !.pc = "done", !.returned = returned]

\* A test for None in place of the truth test: an empty key counts as a key.
NoNewsKeyIsNone == NEWS_API_KEY = None

\* if not NEWS_API_KEY
NoNewsKey == ~Truthy(NEWS_API_KEY)

\* get_trending, to requests.get
get_trending(t) ==
    /\ StartupDone
    /\ threads[t].pc = "idle"
    /\ \E request \in TrendingRequests :
         LET thread == Begin("trending", request)
             category == Get(request.args, "category", Str("general"))
         IN  threads' = [threads EXCEPT ![t] =
                 IF request.method = "OPTIONS" THEN Return(thread, NoContent)
                 ELSE IF NoNewsKey THEN Return(thread, TrendingDemo)
                 ELSE [thread EXCEPT !.pc = "requests.get",
                                     !.news_calls = @ + 1]]
    /\ HandlerGlobals
    /\ UNCHANGED startup

\* get_trending calling the news API again when the call raised or the
\* answer was a failure.
get_trending_retry(t) ==
    /\ threads[t].pc = "requests.get"
    /\ threads[t].route = "trending"
    /\ \E response \in NewsResponses :
         threads' = [threads EXCEPT ![t] =
             IF (response.raised \/ response.status_code # 200)
                /\ threads[t].news_calls < 2
             THEN [@ EXCEPT !.response = response, !.news_calls = @ + 1]
             ELSE Return([@ EXCEPT !.response = response],
                         TrendingReply(response))]
    /\ HandlerGlobals
    /\ UNCHANGED startup

\* get_trending, from the end of requests.get
get_trending_return(t) ==
    /\ threads[t].pc = "requests.get"
    /\ threads[t].route = "trending"
    /\ \E response \in NewsResponses :
         threads' = [threads EXCEPT ![t] =
             Return([@ EXCEPT !.response = response], TrendingReply(response))]
    /\ HandlerGlobals
    /\ UNCHANGED startup

\* search_news, to requests.get
search_news(t) ==
    /\ StartupDone
    /\ threads[t].pc = "idle"
    /\ \E request \in SearchRequests :
         LET thread == Begin("search", request)
             query == Get(request.json, "query", Str(""))
         IN  threads' = [threads EXCEPT ![t] =
                 IF request.method = "OPTIONS" THEN Return(thread, NoContent)
                 ELSE IF ~Truthy(query)
                      THEN Return(thread,
                                  Json("error" :> Str("Query is required"), 400))
                 ELSE IF NoNewsKey THEN Return(thread, SearchDemo)
                 ELSE [thread EXCEPT !.pc = "requests.get",
                                     !.news_calls = @ + 1]]
    /\ HandlerGlobals
    /\ UNCHANGED startup

\* search_news, from the end of requests.get
search_news_return(t) ==
    /\ threads[t].pc = "requests.get"
    /\ threads[t].route = "search"
    /\ \E response \in NewsResponses :
         threads' = [threads EXCEPT ![t] =
             Return([@ EXCEPT !.response = response], SearchReply(response))]
    /\ HandlerGlobals
    /\ UNCHANGED startup

\* summarize_article, to generate_content
summarize_article(t) ==
    /\ StartupDone
    /\ threads[t].pc = "idle"
    /\ \E request \in SummarizeRequests :
         LET thread == Begin("summarize", request)
             early == SummarizeEarly(request.json, gemini_model)
         IN  threads' = [threads EXCEPT ![t] =
                 IF request.method = "OPTIONS" THEN Return(thread, NoContent)
                 ELSE IF early # None THEN Return(thread, early)
                 ELSE [thread EXCEPT !.pc = "generate_content",
                                     !.ai_calls = @ + 1]]
    /\ HandlerGlobals
    /\ UNCHANGED startup

\* summarize_article, from the end of generate_content
summarize_article_return(t) ==
    /\ threads[t].pc = "generate_content"
    /\ threads[t].route = "summarize"
    /\ \E outcome \in AIOutcomes :
         threads' = [threads EXCEPT ![t] =
             Return([@ EXCEPT !.ai = Str(outcome)],
                    SummarizeReply(threads[t].request.json["text"], outcome))]
    /\ HandlerGlobals
    /\ UNCHANGED startup

\* extract_from_url, to requests.get
extract_from_url(t) ==
    /\ StartupDone
    /\ threads[t].pc = "idle"
    /\ \E request \in ExtractRequests :
         LET thread == Begin("extract", request)
             early == ExtractEarly(request.json)
         IN  threads' = [threads EXCEPT ![t] =
                 IF request.method = "OPTIONS" THEN Return(thread, NoContent)
                 ELSE IF early # None THEN Return(thread, early)
                 ELSE [thread EXCEPT !.pc = "requests.get",
                                     !.fetch_calls = @ + 1]]
    /\ HandlerGlobals
    /\ UNCHANGED startup

\* extract_from_url, from the end of requests.get to generate_content: the
\* page is parsed, the content extracted and the result built.
extract_from_url_fetched(t, pages) ==
    /\ threads[t].pc = "requests.get"
    /\ threads[t].route = "extract"
    /\ \E response \in Fetched(pages) :
         LET data == threads[t].request.json
             url == Get(data, "url", Str(""))
             summarize == Get(data, "summarize", Bool(TRUE))
             article_content == ArticleContent(response.html)
             result == ExtractResult(url, TitleText(response.html),
                                     article_content)
             parsed == [threads[t] EXCEPT !.response = response,
                                          !.article_content = Text(article_content),
                                          !.result = result]
         IN  threads' = [threads EXCEPT ![t] =
                 IF response.raised # ""
                 THEN Return([@ EXCEPT !.response = response],
                             Json("error" :> Str("Failed to fetch URL: " \o response.raised), 500))
                 ELSE IF response.rejected
                 THEN Return([@ EXCEPT !.response = response],
                             Exception("ParserRejectedMarkup"))
                 ELSE IF WantsAISummary(summarize, article_content, gemini_model)
                 THEN [parsed EXCEPT !.pc = "generate_content",
                                     !.ai_calls = @ + 1]
                 ELSE LET final == ResultWithoutAI(result, summarize, gemini_model)
                      IN  Return([parsed EXCEPT !.result = final],
                                 Json(final, 200))]
    /\ HandlerGlobals
    /\ UNCHANGED startup

\* The exception of the AI summary call reaching the handler's last except
\* clause.
extract_from_url_unabsorbed(t) ==
    /\ threads[t].pc = "generate_content"
    /\ threads[t].route = "extract"
    /\ \E outcome \in AIOutcomes :
         LET final == ResultWithAI(threads[t].result, outcome)
         IN  threads' = [threads EXCEPT ![t] =
                 Return([@ EXCEPT !.ai = Str(outcome), !.result = final],
                        IF outcome = "raise" THEN Exception("generate_content")
                        ELSE Json(final, 200))]
    /\ HandlerGlobals
    /\ UNCHANGED startup

\* extract_from_url, from the end of generate_content
extract_from_url_return(t) ==
    /\ threads[t].pc = "generate_content"
    /\ threads[t].route = "extract"
    /\ \E outcome \in AIOutcomes :
         LET final == ResultWithAI(threads[t].result, outcome)
         IN  threads' = [threads EXCEPT ![t] =
                 Return([@ EXCEPT !.ai = Str(outcome), !.result = final],
                        Json(final, 200))]
    /\ HandlerGlobals
    /\ UNCHANGED startup

\* health_check
health_check(t) ==
    /\ StartupDone
    /\ threads[t].pc = "idle"
    /\ threads' = [threads EXCEPT ![t] =
           Return(Begin("health", [method |-> "GET", args |-> EmptyObject,
                                   json |-> EmptyObject]),
                  HealthStatus)]
    /\ HandlerGlobals
    /\ UNCHANGED startup

\* The response is sent and the thread takes the next request.
Respond(t) ==
    /\ threads[t].pc = "done"
    /\ threads' = [threads EXCEPT ![t] = Idle]
    /\ HandlerGlobals
    /\ UNCHANGED startup

Next ==
    \/ LoadEnv
    \/ ConfigureGemini
    \/ TryModel
    \/ LoopExhausted
    \/ AfterLoop
    \/ \E t \in Threads :
         \/ get_trending(t)
         \/ get_trending_return(t)
         \/ search_news(t)
         \/ search_news_return(t)
         \/ summarize_article(t)
         \/ summarize_article_return(t)
         \/ extract_from_url(t)
         \/ extract_from_url_fetched(t, SamplePages)
         \/ extract_from_url_return(t)
         \/ health_check(t)
         \/ Respond(t)

Spec == Init /\ [][Next]_vars

(***************************************************************************)
(* The content extractor on its own: one extract-url request whose page   *)
(* fetch is under way, the page any document of the family.               *)
(***************************************************************************)
InitExtract ==
    /\ NEWS_API_KEY = Str("key")
    /\ GEMINI_API_KEY = Str("key")
    /\ gemini_model \in {None, GenerativeModel}
    /\ startup = Serving
    /\ \E request \in ExtractRequests \cup
                       { Post(("url" :> Str("https://site.example/a"))
                              @@ ("summarize" :> Bool(TRUE))) } :
         /\ request.method = "POST"
         /\ ExtractEarly(request.json) = None
         /\ threads = [t \in Threads |->
                IF t = 1
                THEN [Begin("extract", request) EXCEPT
                          !.pc = "requests.get", !.fetch_calls = 1]
                ELSE Idle]

NextExtract ==
    \/ extract_from_url_fetched(1, Docs)
    \/ extract_from_url_return(1)

SpecExtract == InitExtract /\ [][NextExtract]_vars

(***************************************************************************)
(* Properties of the server (Spec).                                       *)
(***************************************************************************)
NewsKeyMissing == NEWS_API_KEY \in {None, Str("")}

Active(t) == threads[t].pc # "idle"

Done(t) == threads[t].pc = "done"

IsGet(t, route) ==
    Active(t) /\ threads[t].route = route /\ threads[t].request.method = "GET"

IsPost(t, route) ==
    Active(t) /\ threads[t].route = route /\ threads[t].request.method = "POST"

\* The field of the request's JSON object is missing or the empty string.
MissingOrEmpty(t, key) ==
    \/ key \notin DOMAIN threads[t].request.json
    \/ threads[t].request.json[key] = Str("")

\* The field of the request's JSON object is a non-empty string.
NonEmpty(t, key) ==
    /\ key \in DOMAIN threads[t].request.json
    /\ threads[t].request.json[key].t = "str"
    /\ threads[t].request.json[key] # Str("")

\* The response is 200 with the demo article list and a note.
DemoReturned(t) ==
    /\ Done(t)
    /\ threads[t].returned.status = 200
    /\ HasField(threads[t].returned.body, "note")
    /\ HasField(threads[t].returned.body, "articles")
    /\ threads[t].returned.body["articles"] = get_demo_articles

\* The upstream news API answered the thread's call with a status.
NewsAnswered(t) ==
    /\ Done(t)
    /\ threads[t].route \in {"trending", "search"}
    /\ threads[t].response # None
    /\ ~threads[t].response.raised

\* C1: without a news API key, GET /api/trending (any category) and POST
\* /api/search with a non-empty query answer 200 with the demo articles and
\* a note, and call the upstream news API not once.
C1_NoKeyDemo ==
    \A t \in Threads :
        (NewsKeyMissing /\ (IsGet(t, "trending")
                            \/ (IsPost(t, "search") /\ NonEmpty(t, "query"))))
        => (DemoReturned(t) /\ threads[t].news_calls = 0)

C1_Witness ==
    /\ NewsKeyMissing
    /\ \E t1, t2 \in Threads :
         /\ IsGet(t1, "trending")
         /\ HasField(threads[t1].request.args, "category")
         /\ DemoReturned(t1)
         /\ IsPost(t2, "search")
         /\ NonEmpty(t2, "query")
         /\ DemoReturned(t2)

\* C2: with a news API key, an upstream 429 on trending is answered 200 with
\* the demo articles and a note, never with an error field, never with 429.
C2_RateLimitDemo ==
    \A t \in Threads :
        (NewsAnswered(t) /\ threads[t].route = "trending"
         /\ threads[t].response.status_code = 429)
        => (/\ DemoReturned(t)
            /\ ~HasField(threads[t].returned.body, "error")
            /\ threads[t].returned.status # 429)

\* C3: a missing or empty query (search) or text (summarize) is answered 400
\* with an error field, whatever is configured, and no upstream news or AI
\* call is issued.
C3_ValidationFirst ==
    \A t \in Threads :
        ((IsPost(t, "search") /\ MissingOrEmpty(t, "query"))
         \/ (IsPost(t, "summarize") /\ MissingOrEmpty(t, "text")))
        => (/\ Done(t)
            /\ threads[t].returned.status = 400
            /\ HasField(threads[t].returned.body, "error")
            /\ threads[t].news_calls = 0
            /\ threads[t].ai_calls = 0)

C3_Witness ==
    /\ NewsKeyMissing
    /\ gemini_model = None
    /\ \E t1, t2 \in Threads :
         /\ IsPost(t1, "search")
         /\ threads[t1].request.json = ("query" :> Str(""))
         /\ threads[t1].returned.status = 400
         /\ IsPost(t2, "summarize")
         /\ threads[t2].request.json = ("title" :> Str("headline"))
         /\ threads[t2].returned.status = 400

\* C4, as claimed: an upstream failure status on trending or search is
\* answered with an error field and the upstream's status code.
C4_FailureMirrored ==
    \A t \in Threads :
        (NewsAnswered(t) /\ threads[t].response.status_code # 200)
        => (/\ HasField(threads[t].returned.body, "error")
            /\ threads[t].returned.status = threads[t].response.status_code)

\* C4, amended: an upstream failure status with a JSON object as its body is
\* answered with an error field and the upstream's status code, but for a
\* 429 on trending, answered 200 with the demo articles and no error field;
\* a failure whose body is not a JSON object is answered 500 with an error
\* field.
C4_FailureMirroredButRateLimit ==
    \A t \in Threads :
        (NewsAnswered(t) /\ threads[t].response.status_code # 200)
        => IF threads[t].response.body.kind # "object"
           THEN /\ threads[t].returned.status = 500
                /\ HasField(threads[t].returned.body, "error")
           ELSE IF threads[t].route = "trending"
                   /\ threads[t].response.status_code = 429
           THEN /\ DemoReturned(t)
                /\ ~HasField(threads[t].returned.body, "error")
           ELSE /\ HasField(threads[t].returned.body, "error")
                /\ threads[t].returned.status = threads[t].response.status_code

C4_Witness ==
    \E t1, t2 \in Threads :
        /\ NewsAnswered(t1)
        /\ threads[t1].route = "trending"
        /\ threads[t1].response.status_code = 429
        /\ threads[t1].response.body.kind = "object"
        /\ threads[t1].returned.status = 200
        /\ NewsAnswered(t2)
        /\ threads[t2].route = "search"
        /\ threads[t2].response.status_code = 429
        /\ threads[t2].returned.status = 429

\* The page of the thread's extract-url request was fetched.
PageFetched(t) ==
    /\ Active(t)
    /\ threads[t].route = "extract"
    /\ threads[t].response # None
    /\ threads[t].response.raised = ""

\* The page was fetched and BeautifulSoup parsed it.
PageParsed(t) == PageFetched(t) /\ ~threads[t].response.rejected

SummarizeAsked(t) ==
    \/ "summarize" \notin DOMAIN threads[t].request.json
    \/ threads[t].request.json["summarize"] = Bool(TRUE)

\* C5, as claimed: without an AI model handle, summarize with a non-empty
\* text answers 200 with a demo summary and a note, extract-url with
\* summarize true and a fetched page answers 200 with a placeholder summary,
\* and neither issues an AI generate call.
C5_NoModelFallback ==
    \A t \in Threads :
        /\ (gemini_model = None /\ IsPost(t, "summarize") /\ NonEmpty(t, "text"))
           => (/\ Done(t)
               /\ threads[t].returned.status = 200
               /\ HasField(threads[t].returned.body, "summary")
               /\ HasField(threads[t].returned.body, "note")
               /\ threads[t].ai_calls = 0)
        /\ (gemini_model = None /\ PageFetched(t) /\ SummarizeAsked(t))
           => (/\ Done(t)
               /\ threads[t].returned.status = 200
               /\ HasField(threads[t].returned.body, "summary")
               /\ ~HasField(threads[t].returned.body, "ai_model")
               /\ threads[t].ai_calls = 0)

\* C5, amended: without an AI model handle, summarize with a non-empty text
\* answers 200 with a demo summary and a note, extract-url with summarize
\* true and a page that was fetched and parsed answers 200 with a
\* placeholder summary, and neither issues an AI generate call; a fetched
\* page the parser rejects is answered 500 with an error field.
C5_NoModelFallbackParsed ==
    \A t \in Threads :
        /\ (gemini_model = None /\ IsPost(t, "summarize") /\ NonEmpty(t, "text"))
           => (/\ Done(t)
               /\ threads[t].returned.status = 200
               /\ HasField(threads[t].returned.body, "summary")
               /\ HasField(threads[t].returned.body, "note")
               /\ threads[t].ai_calls = 0)
        /\ (gemini_model = None /\ PageParsed(t) /\ SummarizeAsked(t))
           => (/\ Done(t)
               /\ threads[t].returned.status = 200
               /\ HasField(threads[t].returned.body, "summary")
               /\ ~HasField(threads[t].returned.body, "ai_model")
               /\ threads[t].ai_calls = 0)
        /\ (gemini_model = None /\ PageFetched(t) /\ ~PageParsed(t))
           => (/\ Done(t)
               /\ threads[t].returned.status = 500
               /\ HasField(threads[t].returned.body, "error")
               /\ threads[t].ai_calls = 0)

C5_Witness ==
    /\ Truthy(GEMINI_API_KEY)
    /\ gemini_model = None
    /\ \E t1, t2 \in Threads :
         /\ IsPost(t1, "summarize")
         /\ NonEmpty(t1, "text")
         /\ threads[t1].returned.status = 200
         /\ PageParsed(t2)
         /\ SummarizeAsked(t2)
         /\ threads[t2].article_content # Text(EmptyStr)
         /\ threads[t2].returned.status = 200

\* Two requests of the same route, with the same inputs and the same
\* upstream answers, got the same response.
SameAnswerForSameRequest ==
    \A t1, t2 \in Threads :
        (/\ Done(t1) /\ Done(t2)
         /\ threads[t1].route = threads[t2].route
         /\ threads[t1].request = threads[t2].request
         /\ threads[t1].response = threads[t2].response
         /\ threads[t1].ai = threads[t2].ai)
        => threads[t1].returned = threads[t2].returned

Html == threads[1].response.html

Soup == Decompose(Html)

Content == threads[1].article_content.runs

Parsed == PageParsed(1)

Chars(s) == { s[k].c : k \in 1..Len(s) }

\* Whether one of the strings is more than whitespace.
HasInk(strs) == \E k \in 1..Len(strs) : Strip(strs[k]) # EmptyStr

\* The first top-level block of the page in which, once the unwanted
\* elements are removed, an element matches the selector.
BlockOf(selector) ==
    CHOOSE i \in 1..Len(Html) :
        /\ select_one(Decompose(<< Html[i] >>), selector) # None
        /\ \A j \in 1..(i - 1) :
               select_one(Decompose(<< Html[j] >>), selector) = None

\* The characters, whitespace apart, of the paragraphs of the other blocks.
ParagraphCharsOutside(i) ==
    LET others == SubSeq(Html, 1, i - 1) \o SubSeq(Html, i + 1, Len(Html))
        paragraphs == find_all(others, "p")
    IN  UNION { Chars(get_text(paragraphs[k])) : k \in 1..Len(paragraphs) }
        \ Whitespace

\* get_text() of every one of the elements, in order.
TextsOf(elements) == [k \in 1..Len(elements) |-> get_text(elements[k])]

\* The selectors, by their place in the list, that match an element.
Matching == { i \in 1..Len(Selectors) : select_one(Soup, Selectors[i]) # None }

\* Those whose first match has text.
MatchingWithText ==
    { i \in Matching :
        get_text_stripped(select_one(Soup, Selectors[i])) # EmptyStr }

Lowest(S) == CHOOSE i \in S : \A j \in S : i <= j

\* C6, as claimed: when the page holds an <article> (once the unwanted
\* elements are removed), the content is the whitespace-collapsed text of
\* the first one, and no text of a paragraph outside it appears.
C6_ArticleText ==
    (Parsed /\ select_one(Soup, "article") # None)
    => (/\ Content = CollapseWhitespace(
                         get_text_stripped(select_one(Soup, "article")))
        /\ ParagraphCharsOutside(BlockOf("article")) \cap Chars(Content) = {})

\* C6, amended: when an <article> is left after the removal of the unwanted
\* elements and the first one left has text that is more than whitespace,
\* the content is its strings joined by spaces and whitespace-collapsed, and
\* no text of a paragraph outside it appears; when it has no such text, the
\* content is that of the paragraph fallback.
C6_ArticleTextUnlessBlank ==
    (Parsed /\ select_one(Soup, "article") # None)
    => LET article == select_one(Soup, "article")
           strings == Strings(article.kids)
       IN  IF HasInk(strings)
           THEN /\ Content = CollapseWhitespace(Join(Space, strings))
                /\ ParagraphCharsOutside(BlockOf("article")) \cap Chars(Content)
                       = {}
           ELSE Content = CollapseWhitespace(Join(Space,
                              TextsOf(find_all(Soup, "p"))))

C6_Witness ==
    /\ Parsed
    /\ Done(1)
    /\ select_one(Soup, "article") # None
    /\ HasInk(Strings(select_one(Soup, "article").kids))
    /\ ParagraphCharsOutside(BlockOf("article")) # {}
    /\ Content # EmptyStr

\* C7, as claimed: the content is the text of the first selector of the list
\* whose match has text, a match without text not standing in the way of a
\* later selector, and the paragraphs are used only if no selector matches.
C7_FirstNonEmptyMatch ==
    Parsed
    => /\ MatchingWithText # {}
          => Content = CollapseWhitespace(get_text_stripped(
                           select_one(Soup, Selectors[Lowest(MatchingWithText)])))
       /\ (Matching # {} /\ MatchingWithText = {}) => Content = EmptyStr

\* C7, amended: the content is the text of the first selector of the list
\* that matches an element, with or without text, and no later selector is
\* looked at; the paragraphs are used when no selector matches or when that
\* first match has no text.
C7_FirstMatch ==
    Parsed
    => LET paragraphs == CollapseWhitespace(Join(Space,
                             TextsOf(find_all(Soup, "p"))))
       IN  IF Matching = {} THEN Content = paragraphs
           ELSE LET strings ==
                        Strings(select_one(Soup, Selectors[Lowest(Matching)]).kids)
                IN  IF HasInk(strings)
                    THEN Content = CollapseWhitespace(Join(Space, strings))
                    ELSE Content = paragraphs

C7_Witness ==
    /\ Parsed
    /\ Done(1)
    /\ Matching # {}
    /\ MatchingWithText # {}
    /\ Lowest(Matching) < Lowest(MatchingWithText)

\* C8, as claimed: when no selector matches, the content is the texts of the
\* paragraphs that have text, in document order, joined by single spaces.
C8_ParagraphsJoined ==
    (Parsed /\ Matching = {})
    => Content = Join(Space, ParagraphTexts(find_all(Soup, "p")))

\* C8, amended: when no selector matches, the content is the texts of the
\* paragraphs, in document order, joined by single spaces and then
\* whitespace-collapsed.
C8_ParagraphsJoinedCollapsed ==
    (Parsed /\ Matching = {})
    => Content = CollapseWhitespace(Join(Space, TextsOf(find_all(Soup, "p"))))

C8_Witness ==
    /\ Parsed
    /\ Done(1)
    /\ Matching = {}
    /\ Len(ParagraphTexts(find_all(Soup, "p"))) >= 2
    /\ Content # EmptyStr

\* Whether string a is the start of string b.
RECURSIVE IsPrefix(_, _)
IsPrefix(a, b) ==
    \/ a = EmptyStr
    \/ /\ b # EmptyStr
       /\ a[1].c = b[1].c
       /\ \/ a[1].n = b[1].n /\ IsPrefix(Tail(a), Tail(b))
          \/ a[1].n < b[1].n /\ Len(a) = 1

\* C9: in a successful extract-url response, content is the start of the
\* extracted text, of length min(5000, its length), content_length is the
\* length of the whole text, and the two lengths are equal exactly when the
\* text has at most 5000 characters.
C9_ContentCut ==
    (Parsed /\ Done(1) /\ threads[1].returned.status = 200)
    => LET body == threads[1].returned.body
           content == body["content"].runs
           content_length == body["content_length"].i
           full == ArticleContent(Html)
       IN  /\ IsPrefix(content, full)
           /\ StrLen(content) = Min(5000, StrLen(full))
           /\ StrLen(content) <= 5000
           /\ content_length = StrLen(full)
           /\ content_length >= StrLen(content)
           /\ (content_length = StrLen(content)) <=> (StrLen(full) <= 5000)

C9_Witness ==
    /\ Parsed
    /\ Done(1)
    /\ threads[1].returned.status = 200
    /\ threads[1].returned.body["content_length"].i > 5000
    /\ StrLen(threads[1].returned.body["content"].runs) = 5000

(***************************************************************************)
(* Upstream calls of one request (Spec).                                  *)
(***************************************************************************)
\* The news API call of the thread's request raised or was answered with a
\* failure status.
NewsFailed(t) ==
    /\ Active(t)
    /\ threads[t].route \in {"trending", "search"}
    /\ threads[t].response # None
    /\ (threads[t].response.raised \/ threads[t].response.status_code # 200)

\* The page fetch of the thread's request raised.
FetchFailed(t) ==
    /\ Active(t)
    /\ threads[t].route = "extract"
    /\ threads[t].response # None
    /\ threads[t].response.raised # ""

\* The AI generate call of the thread's request raised.
GenerateFailed(t) == Active(t) /\ threads[t].ai = Str("raise")

\* C11: within one request trending and search issue at most one news API
\* call, summarize at most one AI generate call, extract-url at most one
\* page fetch and at most one AI generate call; once an upstream call has
\* raised or failed the response is returned with no further call to that
\* upstream.
C11_NoRetries ==
    \A t \in Threads :
        /\ threads[t].news_calls <= 1
        /\ threads[t].fetch_calls <= 1
        /\ threads[t].ai_calls <= 1
        /\ NewsFailed(t) => (Done(t) /\ threads[t].news_calls = 1)
        /\ FetchFailed(t) => (Done(t) /\ threads[t].fetch_calls = 1)
        /\ GenerateFailed(t) => (Done(t) /\ threads[t].ai_calls = 1)

C11_Witness ==
    \E t1, t2 \in Threads :
        /\ threads[t1].route = "trending"
        /\ NewsFailed(t1)
        /\ threads[t1].response.raised
        /\ threads[t1].news_calls = 1
        /\ threads[t2].route = "extract"
        /\ GenerateFailed(t2)
        /\ threads[t2].fetch_calls = 1
        /\ threads[t2].ai_calls = 1

(***************************************************************************)
(* extract-url once the page is fetched (Spec).                           *)
(***************************************************************************)
\* The response holds the extraction result: status 200, the four fields,
\* the content as extracted and cut, and no error field.
ResultReturned(t) ==
    LET body == threads[t].returned.body
    IN  /\ threads[t].returned.status = 200
        /\ {"url", "title", "content", "content_length"} \subseteq DOMAIN body
        /\ ~HasField(body, "error")
        /\ body["url"] = threads[t].request.json["url"]
        /\ body["content"] =
               Text(Prefix(threads[t].article_content.runs, ContentBudget))
        /\ body["content_length"] =
               Num(StrLen(threads[t].article_content.runs))

\* An exception of the AI summary call left a placeholder summary.
GenerateAbsorbed(t) ==
    threads[t].ai = Str("raise")
    => (/\ HasField(threads[t].returned.body, "summary")
        /\ threads[t].returned.body["summary"].t = "str"
        /\ threads[t].returned.body["summary"] # Str("")
        /\ ~HasField(threads[t].returned.body, "ai_model"))

\* C12, as claimed: once the page fetch has succeeded the response is 200
\* with url, title, content and content_length, for an empty extraction
\* too, and an exception of the AI summary call leaves the content and a
\* placeholder summary.
C12_FetchedAlwaysOK ==
    \A t \in Threads :
        (PageFetched(t) /\ Done(t))
        => (/\ threads[t].returned.status = 200
            /\ {"url", "title", "content", "content_length"}
                   \subseteq DOMAIN threads[t].returned.body
            /\ GenerateAbsorbed(t))

\* C12, amended: once the page is fetched and parsed the response is 200
\* with url, title, content and content_length, for an empty extraction
\* too, and an exception of the AI summary call leaves the content and a
\* placeholder summary; a fetched page the parser rejects is answered 500
\* with an error field.
C12_ParsedAlwaysOK ==
    \A t \in Threads :
        /\ (PageParsed(t) /\ Done(t))
           => (ResultReturned(t) /\ GenerateAbsorbed(t))
        /\ (PageFetched(t) /\ ~PageParsed(t))
           => (/\ Done(t)
               /\ threads[t].returned.status = 500
               /\ HasField(threads[t].returned.body, "error"))

C12_Witness ==
    /\ gemini_model = GenerativeModel
    /\ \E t1, t2 \in Threads :
         /\ PageParsed(t1)
         /\ Done(t1)
         /\ SummarizeAsked(t1)
         /\ threads[t1].article_content = Text(EmptyStr)
         /\ threads[t1].returned.body["content_length"] = Num(0)
         /\ threads[t1].returned.status = 200
         /\ PageParsed(t2)
         /\ Done(t2)
         /\ threads[t2].ai = Str("raise")
         /\ threads[t2].article_content # Text(EmptyStr)
         /\ threads[t2].returned.status = 200

=============================================================================
